---- MODULE Spec2Model ----
(***************************************************************************)
(* Model of lib/src/cmdutils.rs: the subprocess runners                    *)
(* CommandRunExt::run, CommandRunExt::run_and_parse_json and               *)
(* AsyncCommandRunExt::run, the status checker ExitStatusExt::check_status *)
(* and the tail reader last_utf8_content_from_file.                        *)
(*                                                                         *)
(* A temporary file (a "sink") is one open file description: every handle  *)
(* obtained with try_clone, and every descriptor a child inherits from     *)
(* it, shares its content AND its file offset.  Contents are kept          *)
(* run-length encoded, a sequence of blocks [b, n, w]: n copies of byte    *)
(* class b written by process w, so that sinks larger than u16::MAX stay   *)
(* small values.                                                           *)
(***************************************************************************)
EXTENDS Integers, Sequences, FiniteSets, TLC

VARIABLES
    call,     \* per invocation: the runner's locals and its position
    sinks,    \* the temporary files: content, shared offset, open handles
    proc,     \* per invocation: the child process and a process it forked
    ghost,    \* per invocation: history used only to state properties
    menu      \* the blocks of bytes the commands under test may write

vars == <<call, sinks, proc, ghost, menu>>

----------------------------------------------------------------------------
(* Bounds of the model *)

\* writes to its error stream a child makes before it exits
MaxWrites == 2
\* writes a forked descendant makes through the inherited handle after
\* the child has exited
MaxLate == 1

----------------------------------------------------------------------------
(* Program constants *)

MAX_STDERR_BYTES == 1024
U16_MAX == 65535

\* the two invocations of the tests (one command each)
Calls == {"c1", "c2"}
Kinds == {"run", "async_run", "run_and_parse_json"}
\* the command text of each invocation
Program == [c \in Calls |-> IF c = "c1" THEN "true" ELSE "false"]
\* unix wait statuses: exit 0, exit 1, killed by signal 9
Statuses == {0, 256, 9}

\* Byte classes: "a" ASCII, "L" the lead C3 of a two-byte sequence, "K"
\* the continuation A9, "X" the never-valid C0, "7" an ASCII digit.
\* What from_utf8_lossy puts for an invalid sequence:
REPLACEMENT == "U+FFFD"
Placeholder == <<[ch |-> "<failed to read stderr>", n |-> 1]>>

Min(a, b) == IF a < b THEN a ELSE b

----------------------------------------------------------------------------
(* Run-length encoded byte strings *)

RECURSIVE RLen(_)
RLen(s) == IF s = <<>> THEN 0 ELSE Head(s).n + RLen(Tail(s))

\* s followed by one block, merging equal neighbours
RPush(s, blk) ==
    IF blk.n = 0 THEN s
    ELSE IF s # <<>> /\ s[Len(s)].b = blk.b /\ s[Len(s)].w = blk.w
         THEN [s EXCEPT ![Len(s)].n = @ + blk.n]
         ELSE Append(s, blk)

RECURSIVE RCat(_, _)
RCat(s, t) == IF t = <<>> THEN s ELSE RCat(RPush(s, Head(t)), Tail(t))

\* the first k bytes of s
RECURSIVE RTake(_, _)
RTake(s, k) ==
    IF k <= 0 \/ s = <<>> THEN <<>>
    ELSE IF Head(s).n >= k THEN <<[Head(s) EXCEPT !.n = k]>>
    ELSE <<Head(s)>> \o RTake(Tail(s), k - Head(s).n)

\* s without its first k bytes
RECURSIVE RDrop(_, _)
RDrop(s, k) ==
    IF s = <<>> THEN <<>>
    ELSE IF k <= 0 THEN s
    ELSE IF Head(s).n > k THEN <<[Head(s) EXCEPT !.n = @ - k]>> \o Tail(s)
    ELSE RDrop(Tail(s), k - Head(s).n)

\* the last k bytes of s
RLast(s, k) == RDrop(s, RLen(s) - k)

\* write(2) of blk at offset off: overwrites, and extends past the end
WriteAt(s, off, blk) ==
    RCat(RPush(RTake(s, off), blk), RDrop(s, off + blk.n))

----------------------------------------------------------------------------
(* String::from_utf8_lossy, on run-length encoded bytes; the result is a   *)
(* run-length encoded sequence of characters [ch, n]                       *)

CPush(t, c, k) ==
    IF k = 0 THEN t
    ELSE IF t # <<>> /\ t[Len(t)].ch = c
         THEN [t EXCEPT ![Len(t)].n = @ + k]
         ELSE Append(t, [ch |-> c, n |-> k])

\* the characters block i of s decodes to, appended to t
DecodeBlock(s, i, t) ==
    LET blk == s[i]
        prevL == i > 1 /\ s[i - 1].b = "L"
        nextK == i < Len(s) /\ s[i + 1].b = "K"
    IN  CASE blk.b = "a" -> CPush(t, "a", blk.n)
          [] blk.b = "X" -> CPush(t, REPLACEMENT, blk.n)
          [] blk.b = "L" ->
                IF nextK THEN CPush(CPush(t, REPLACEMENT, blk.n - 1), "e-acute", 1)
                ELSE CPush(t, REPLACEMENT, blk.n)
          [] blk.b = "K" ->
                IF prevL THEN CPush(t, REPLACEMENT, blk.n - 1)
                ELSE CPush(t, REPLACEMENT, blk.n)

RECURSIVE DecodeFrom(_, _, _)
DecodeFrom(s, i, t) ==
    IF i > Len(s) THEN t ELSE DecodeFrom(s, i + 1, DecodeBlock(s, i, t))

from_utf8_lossy(s) == DecodeFrom(s, 1, <<>>)

----------------------------------------------------------------------------
(* Results: Ok(()), Ok(value) and anyhow errors with their rendered text   *)

NoResult == [tag |-> "none", msg |-> <<>>]
Ok == [tag |-> "Ok", msg |-> <<>>]
OkValue(v) == [tag |-> "Ok", msg |-> <<v>>]
Err(m) == [tag |-> "Err", msg |-> m]

\* the rendering of a std::io::Error raised by the named system call
IoError(what) == <<"os error", what>>

\* {self:?} of an ExitStatus
DebugForm(st) == <<"ExitStatus(unix_wait_status(", st, "))">>

success(st) == st = 0

\* variant: the message names the command
FailureMessageWithCommand(c, st, text) ==
    <<"Subprocess failed: ", call[c].prog, DebugForm(st), "\n", text>>

\* format!("Subprocess failed: {self:?}\n{stderr_buf}")
FailureMessage(c, st, text) == <<"Subprocess failed: ", DebugForm(st), "\n", text>>

----------------------------------------------------------------------------
(* Sinks and handles *)

\* A handle is <<invocation, role>>: the runner's locals "stderr" and
\* "stdout", the redirections "cmd.stderr" and "cmd.stdout" stored in the
\* Command, the child's descriptors "child.2" and "child.1", and those of
\* a process it forked, "desc.2" and "desc.1".
SinkIds == Calls \X {"err", "out"}
\* the handles the calling process itself holds
ParentRoles == {"stderr", "stdout", "cmd.stderr", "cmd.stdout"}

Closed == [open |-> FALSE, data |-> <<>>, off |-> 0, holders |-> {}]

\* variant: one temporary file for every invocation
tempfileShared(c, which) == <<"c1", which>>

\* tempfile::tempfile(): a fresh anonymous file
tempfile(c, which) == <<c, which>>

Has(sk, h) == \E s \in SinkIds : h \in sk[s].holders
SinkOf(sk, h) == CHOOSE s \in SinkIds : h \in sk[s].holders

\* a new handle h on sink s, created empty if it is not open yet
OpenSink(sk, s, h) ==
    [sk EXCEPT ![s] = IF @.open THEN [@ EXCEPT !.holders = @ \cup {h}]
                      ELSE [open |-> TRUE, data |-> <<>>, off |-> 0,
                            holders |-> {h}]]

\* File::try_clone / inheritance over fork: h2 is one more handle on the
\* open file description of h
try_clone(sk, h, h2) ==
    IF Has(sk, h)
    THEN [sk EXCEPT ![SinkOf(sk, h)].holders = @ \cup {h2}]
    ELSE sk

\* drop of a handle; the anonymous file goes with its last handle
Release(sk, h) ==
    [s \in SinkIds |->
        IF h \in sk[s].holders
        THEN IF sk[s].holders = {h} THEN Closed
             ELSE [sk[s] EXCEPT !.holders = @ \ {h}]
        ELSE sk[s]]

ReleaseAll(sk, hs) ==
    [s \in SinkIds |->
        IF sk[s].holders \subseteq hs THEN Closed
        ELSE [sk[s] EXCEPT !.holders = @ \ hs]]

\* write(2) of the bytes bs through handle h: at the shared offset, which
\* it advances
RECURSIVE WriteThrough(_, _, _)
WriteThrough(sk, h, bs) ==
    IF bs = <<>> THEN sk
    ELSE LET s == SinkOf(sk, h)
         IN  WriteThrough(
                 [sk EXCEPT ![s].data = WriteAt(@, sk[s].off, Head(bs)),
                            ![s].off = @ + Head(bs).n],
                 h, Tail(bs))

----------------------------------------------------------------------------
(* Initial state *)

Block(b, n, w) == [b |-> b, n |-> n, w |-> w]

\* what a command may write to its error stream in one write: an ASCII
\* byte, a two-byte character, 1023 bytes starting with an invalid one
\* (so that two writes make 1024 or 1025 bytes), more than u16::MAX bytes
TailMenu ==
    { <<Block("a", 1, "")>>,
      <<Block("L", 1, ""), Block("K", 1, "")>>,
      <<Block("X", 1, ""), Block("a", MAX_STDERR_BYTES - 2, "")>>,
      <<Block("a", U16_MAX + 1, "")>> }
\* for the pair of invocations: one byte more than the tail keeps
PairMenu == { <<Block("a", 1, ""), Block("X", MAX_STDERR_BYTES, "")>> }
\* what a forked process may write after the child's exit
LateMenu == { <<Block("X", 1, "")>>, <<Block("a", MAX_STDERR_BYTES + 1, "")>> }

\* the bytes bs as written by the command of invocation c
By(bs, c) == [i \in 1..Len(bs) |-> [bs[i] EXCEPT !.w = c]]

\* what a command may print on its output stream: nothing, the document
\* the caller's type accepts, a document it rejects
Documents == {<<>>, <<Block("7", 1, "out")>>, <<Block("X", 1, "out")>>}

NewCall(pc) ==
    [pc |-> pc, kind |-> "none", prog |-> "", status |-> -1, size |-> 0,
     stderr_buf |-> <<>>, text |-> <<>>, run_result |-> NoResult,
     result |-> NoResult]

NewProc ==
    [child |-> "none", exit |-> -1, desc |-> "none", nwrites |-> 0,
     nlate |-> 0, wrote_out |-> FALSE]

NewGhost ==
    [written |-> <<>>, late |-> FALSE, ops |-> <<>>, faults |-> {},
     spawns |-> 0, overlap |-> FALSE]

InitCommon ==
    /\ sinks = [s \in SinkIds |-> Closed]
    /\ proc = [c \in Calls |-> NewProc]
    /\ ghost = [c \in Calls |-> NewGhost]

\* one invocation of any runner, with every kind of error-stream content
Init ==
    /\ InitCommon
    /\ call = [c \in Calls |-> NewCall(IF c = "c1" THEN "idle" ELSE "absent")]
    /\ menu = TailMenu

\* two invocations, as in async_command_run_ext
InitAsync ==
    /\ InitCommon
    /\ call = [c \in Calls |-> NewCall("idle")]
    /\ menu = PairMenu

----------------------------------------------------------------------------
(* The runners *)

InFlight(c) == call[c].pc \notin {"absent", "idle", "returned", "dropped"}

Fault(gh, c, what) == [gh EXCEPT ![c].faults = @ \cup {what}]
Op(gh, c, what) == [gh EXCEPT ![c].ops = Append(@, what)]

\* the caller invokes one of the three runners on its Command
Start(c, k) ==
    /\ call[c].pc = "idle"
    /\ call' = [call EXCEPT ![c].kind = k, ![c].prog = Program[c],
                            ![c].pc = IF k = "run_and_parse_json"
                                      THEN "j_tempfile" ELSE "tempfile"]
    /\ ghost' = [ghost EXCEPT
                    ![c].overlap = \E d \in Calls \ {c} : InFlight(d)]
    /\ UNCHANGED <<sinks, proc, menu>>

\* variant: run_and_parse_json goes on to the seek whatever run returned
RunReturnsUnchecked(c, cl, sk, r) ==
    LET sk1 == Release(sk, <<c, "stderr">>)
    IN  IF cl[c].kind = "run_and_parse_json"
        THEN /\ call' = [cl EXCEPT ![c].run_result = r, ![c].pc = "j_seek"]
             /\ sinks' = sk1
        ELSE /\ call' = [cl EXCEPT ![c].run_result = r, ![c].result = r,
                                   ![c].pc = "returned"]
             /\ sinks' = sk1

\* run() returns r: its local `stderr` is dropped if it still holds it.
\* In run_and_parse_json, `self.run()?` returns the error at once, dropping
\* the local `stdout`, and goes on to the seek only on Ok.
RunReturns(c, cl, sk, r) ==
    LET sk1 == Release(sk, <<c, "stderr">>)
    IN  IF cl[c].kind = "run_and_parse_json"
        THEN IF r.tag = "Ok"
             THEN /\ call' = [cl EXCEPT ![c].run_result = r,
                                        ![c].pc = "j_seek"]
                  /\ sinks' = sk1
             ELSE /\ call' = [cl EXCEPT ![c].run_result = r,
                                        ![c].result = r,
                                        ![c].pc = "returned"]
                  /\ sinks' = Release(sk1, <<c, "stdout">>)
        ELSE /\ call' = [cl EXCEPT ![c].run_result = r, ![c].result = r,
                                   ![c].pc = "returned"]
             /\ sinks' = sk1

\* run_and_parse_json: let mut stdout = tempfile::tempfile()?;
JsonTempfile(c) ==
    /\ call[c].pc = "j_tempfile"
    /\ UNCHANGED <<proc, menu>>
    /\ \/ /\ sinks' = OpenSink(sinks, tempfile(c, "out"), <<c, "stdout">>)
          /\ call' = [call EXCEPT ![c].pc = "j_clone"]
          /\ UNCHANGED ghost
       \/ /\ call' = [call EXCEPT ![c].result = Err(IoError("tempfile")),
                                  ![c].pc = "returned"]
          /\ ghost' = Fault(ghost, c, "stdout.tempfile")
          /\ UNCHANGED sinks

\* run_and_parse_json: self.stdout(stdout.try_clone()?);
JsonTryClone(c) ==
    /\ call[c].pc = "j_clone"
    /\ UNCHANGED <<proc, menu>>
    /\ \/ /\ sinks' = try_clone(sinks, <<c, "stdout">>, <<c, "cmd.stdout">>)
          /\ call' = [call EXCEPT ![c].pc = "tempfile"]
          /\ UNCHANGED ghost
       \/ /\ call' = [call EXCEPT ![c].result = Err(IoError("try_clone")),
                                  ![c].pc = "returned"]
          /\ sinks' = Release(sinks, <<c, "stdout">>)
          /\ ghost' = Fault(ghost, c, "stdout.try_clone")

\* run: let stderr = tempfile::tempfile()?;
RunTempfile(c) ==
    /\ call[c].pc = "tempfile"
    /\ UNCHANGED <<proc, menu>>
    /\ \/ /\ sinks' = OpenSink(sinks, tempfile(c, "err"), <<c, "stderr">>)
          /\ call' = [call EXCEPT ![c].pc = "clone"]
          /\ UNCHANGED ghost
       \/ /\ RunReturns(c, call, sinks, Err(IoError("tempfile")))
          /\ ghost' = Fault(ghost, c, "stderr.tempfile")

\* run: self.stderr(stderr.try_clone()?); the clone is moved into the
\* Command, which the caller owns
RunTryClone(c) ==
    /\ call[c].pc = "clone"
    /\ UNCHANGED <<proc, menu>>
    /\ \/ /\ sinks' = try_clone(sinks, <<c, "stderr">>, <<c, "cmd.stderr">>)
          /\ call' = [call EXCEPT ![c].pc = "spawn"]
          /\ UNCHANGED ghost
       \/ /\ RunReturns(c, call, sinks, Err(IoError("try_clone")))
          /\ ghost' = Fault(ghost, c, "stderr.try_clone")

\* self.status(), first half: the child is spawned with the Command's
\* redirections as its descriptors 2 and 1
Spawn(c) ==
    /\ call[c].pc = "spawn"
    /\ UNCHANGED menu
    /\ \/ /\ sinks' = try_clone(
                         try_clone(sinks, <<c, "cmd.stderr">>, <<c, "child.2">>),
                         <<c, "cmd.stdout">>, <<c, "child.1">>)
          /\ proc' = [proc EXCEPT ![c].child = "running"]
          /\ call' = [call EXCEPT ![c].pc = "wait"]
          /\ ghost' = [ghost EXCEPT ![c].spawns = @ + 1]
       \/ /\ RunReturns(c, call, sinks, Err(IoError("spawn")))
          /\ ghost' = Fault([ghost EXCEPT ![c].spawns = @ + 1], c, "spawn")
          /\ UNCHANGED proc

\* variant: a failed wait is reported as a failed command
WaitChildFailureAsStatus(c) ==
    /\ call[c].pc = "wait"
    /\ UNCHANGED menu
    /\ \/ /\ proc[c].child = "exited"
          /\ proc' = [proc EXCEPT ![c].child = "reaped"]
          /\ call' = [call EXCEPT ![c].status = proc[c].exit,
                                  ![c].pc = "fstat"]
          /\ UNCHANGED <<sinks, ghost>>
       \/ /\ call' = [call EXCEPT ![c].status = 256, ![c].pc = "fstat"]
          /\ ghost' = [ghost EXCEPT ![c].faults = @ \cup {"wait"}]
          /\ UNCHANGED <<sinks, proc>>

\* self.status(), second half: the wait for the child's termination
WaitChild(c) ==
    /\ call[c].pc = "wait"
    /\ UNCHANGED menu
    /\ \/ /\ proc[c].child = "exited"
          /\ proc' = [proc EXCEPT ![c].child = "reaped"]
          /\ call' = [call EXCEPT ![c].status = proc[c].exit,
                                  ![c].pc = "fstat"]
          /\ UNCHANGED <<sinks, ghost>>
       \/ /\ RunReturns(c, call, sinks, Err(IoError("wait")))
          /\ ghost' = Fault(ghost, c, "wait")
          /\ UNCHANGED proc

\* CommandRunExt::run: self.status()? blocks the calling thread
StatusBlocking(c) ==
    /\ call[c].kind \in {"run", "run_and_parse_json"}
    /\ WaitChild(c)

\* AsyncCommandRunExt::run: self.status().await? suspends the task
StatusAwait(c) ==
    /\ call[c].kind = "async_run"
    /\ WaitChild(c)

----------------------------------------------------------------------------
(* last_utf8_content_from_file, called first thing by check_status *)

\* m.len().try_into().unwrap_or(u16::MAX)
ToU16(len) == IF len > U16_MAX THEN U16_MAX ELSE len

\* variant: the size is not clamped to MAX_STDERR_BYTES
ClampSizeU16Only(len) == ToU16(len)

\* size.min(MAX_STDERR_BYTES)
ClampSize(len) == Min(ToU16(len), MAX_STDERR_BYTES)

\* variant: the seek goes one byte too far back
SeekOffsetOffByOne(size) == 0 - (size + 1)

\* -(size as i32)
SeekOffset(size) == 0 - size

ErrSink(c) == SinkOf(sinks, <<c, "stderr">>)

\* f.metadata(): a failure is logged and the size taken to be 0
Metadata(c) ==
    /\ call[c].pc = "fstat"
    /\ UNCHANGED <<sinks, proc, menu>>
    /\ \/ /\ call' = [call EXCEPT
                        ![c].size = ClampSize(RLen(sinks[ErrSink(c)].data)),
                        ![c].pc = "seek"]
          /\ ghost' = Op(ghost, c, "stderr.metadata")
       \/ /\ call' = [call EXCEPT ![c].size = 0, ![c].pc = "seek"]
          /\ ghost' = Fault(Op(ghost, c, "stderr.metadata"), c,
                            "stderr.metadata")

\* variant: a failed seek is returned to the caller as an error
SeekEndPropagating(c) ==
    /\ call[c].pc = "seek"
    /\ UNCHANGED <<proc, menu>>
    /\ LET s == ErrSink(c)
           pos == RLen(sinks[s].data) + SeekOffset(call[c].size)
       IN  \/ /\ pos >= 0
              /\ sinks' = [sinks EXCEPT ![s].off = pos]
              /\ call' = [call EXCEPT ![c].pc = "read"]
              /\ ghost' = Op(ghost, c, "stderr.seek")
           \/ /\ RunReturns(c, call, sinks, Err(IoError("seek")))
              /\ ghost' = Fault(Op(ghost, c, "stderr.seek"), c, "stderr.seek")

\* f.seek(SeekFrom::End(seek_offset)): moves the offset of the open file
\* description; fails on a negative position or an I/O error, and then
\* the placeholder is the result
SeekEnd(c) ==
    /\ call[c].pc = "seek"
    /\ UNCHANGED <<proc, menu>>
    /\ LET s == ErrSink(c)
           pos == RLen(sinks[s].data) + SeekOffset(call[c].size)
       IN  \/ /\ pos >= 0
              /\ sinks' = [sinks EXCEPT ![s].off = pos]
              /\ call' = [call EXCEPT ![c].pc = "read"]
              /\ ghost' = Op(ghost, c, "stderr.seek")
           \/ /\ call' = [call EXCEPT ![c].text = Placeholder,
                                      ![c].pc = "check"]
              /\ ghost' = Fault(Op(ghost, c, "stderr.seek"), c, "stderr.seek")
              /\ UNCHANGED sinks

\* f.read_to_end(&mut stderr_buf): read calls until one returns 0 bytes;
\* each takes what lies between the shared offset and the end
ReadToEnd(c) ==
    /\ call[c].pc = "read"
    /\ UNCHANGED <<proc, menu>>
    /\ LET s == ErrSink(c)
           avail == RLen(sinks[s].data) - sinks[s].off
       IN  \/ /\ avail > 0
              /\ call' = [call EXCEPT ![c].stderr_buf =
                              RCat(@, RDrop(sinks[s].data, sinks[s].off))]
              /\ sinks' = [sinks EXCEPT ![s].off = @ + avail]
              /\ ghost' = Op(ghost, c, "stderr.read")
           \/ /\ avail <= 0
              /\ call' = [call EXCEPT
                            ![c].text = from_utf8_lossy(call[c].stderr_buf),
                            ![c].pc = "check"]
              /\ ghost' = Op(ghost, c, "stderr.read")
              /\ UNCHANGED sinks
           \/ /\ call' = [call EXCEPT ![c].text = Placeholder,
                                      ![c].pc = "check"]
              /\ ghost' = Fault(Op(ghost, c, "stderr.read"), c, "stderr.read")
              /\ UNCHANGED sinks

\* variant: a tail that could not be read fails the call
CheckStatusReadErrorFatal(c) ==
    /\ call[c].pc = "check"
    /\ UNCHANGED <<proc, ghost, menu>>
    /\ RunReturns(c, call, sinks,
            IF call[c].text = Placeholder THEN Err(IoError("read"))
            ELSE IF success(call[c].status) THEN Ok
            ELSE Err(FailureMessage(c, call[c].status, call[c].text)))

\* check_status after the tail reader: `stderr` was moved into the tail
\* reader and dropped there; success() decides between Ok and the bail!
CheckStatus(c) ==
    /\ call[c].pc = "check"
    /\ UNCHANGED <<proc, ghost, menu>>
    /\ RunReturns(c, call, sinks,
            IF success(call[c].status) THEN Ok
            ELSE Err(FailureMessage(c, call[c].status, call[c].text)))

----------------------------------------------------------------------------
(* run_and_parse_json after a successful run *)

\* serde_json::from_reader into the caller's type: here a type that
\* accepts the one-digit document "7"
from_reader(data) ==
    IF data = <<Block("7", 1, "out")>> THEN OkValue(7)
    ELSE Err(<<"serde_json", from_utf8_lossy(data)>>)

\* stdout.seek(SeekFrom::Start(0)).context("seek")?
JsonSeek(c) ==
    /\ call[c].pc = "j_seek"
    /\ UNCHANGED <<proc, menu>>
    /\ LET s == SinkOf(sinks, <<c, "stdout">>)
       IN  \/ /\ sinks' = [sinks EXCEPT ![s].off = 0]
              /\ call' = [call EXCEPT ![c].pc = "j_decode"]
              /\ ghost' = Op(ghost, c, "stdout.seek")
           \/ /\ call' = [call EXCEPT
                            ![c].result = Err(<<"seek", IoError("seek")>>),
                            ![c].pc = "returned"]
              /\ sinks' = Release(sinks, <<c, "stdout">>)
              /\ ghost' = Fault(Op(ghost, c, "stdout.seek"), c, "stdout.seek")

\* serde_json::from_reader(BufReader::new(stdout)).map_err(Into::into);
\* the reader owns `stdout` and drops it
JsonDecode(c) ==
    /\ call[c].pc = "j_decode"
    /\ UNCHANGED <<proc, menu>>
    /\ LET s == SinkOf(sinks, <<c, "stdout">>)
           bytes == RDrop(sinks[s].data, sinks[s].off)
       IN  /\ sinks' = Release(
                 [sinks EXCEPT ![s].off = RLen(sinks[s].data)],
                 <<c, "stdout">>)
           /\ \/ /\ call' = [call EXCEPT ![c].result = from_reader(bytes),
                                         ![c].pc = "returned"]
                 /\ ghost' = Op(ghost, c, "stdout.read")
              \/ /\ call' = [call EXCEPT
                               ![c].result = Err(<<"serde_json", IoError("read")>>),
                               ![c].pc = "returned"]
                 /\ ghost' = Fault(Op(ghost, c, "stdout.read"), c,
                                   "stdout.read")

\* the caller lets go of the Command (a temporary in the tests), and with
\* it of the redirections stored in it
DropCommand(c) ==
    /\ call[c].pc = "returned"
    /\ call' = [call EXCEPT ![c].pc = "dropped"]
    /\ sinks' = ReleaseAll(sinks, {<<c, "cmd.stderr">>, <<c, "cmd.stdout">>})
    /\ UNCHANGED <<proc, ghost, menu>>

----------------------------------------------------------------------------
(* The command under test: the child process and a process it may fork *)

\* the child writes to its error stream
ChildWrite(c, bs) ==
    /\ proc[c].child = "running"
    /\ proc[c].nwrites < MaxWrites
    /\ Has(sinks, <<c, "child.2">>)
    /\ sinks' = WriteThrough(sinks, <<c, "child.2">>, By(bs, c))
    /\ proc' = [proc EXCEPT ![c].nwrites = @ + 1]
    /\ ghost' = [ghost EXCEPT ![c].written = RCat(@, By(bs, c))]
    /\ UNCHANGED <<call, menu>>

\* the child prints a document on its redirected output stream (before
\* it writes to its error stream: the two sinks are independent)
ChildPrint(c, doc) ==
    /\ proc[c].child = "running"
    /\ ~proc[c].wrote_out
    /\ proc[c].nwrites = 0
    /\ doc # <<>>
    /\ Has(sinks, <<c, "child.1">>)
    /\ sinks' = WriteThrough(sinks, <<c, "child.1">>, doc)
    /\ proc' = [proc EXCEPT ![c].wrote_out = TRUE]
    /\ UNCHANGED <<call, ghost, menu>>

\* the child terminates with wait status st and its descriptors are
\* closed; if `leaves`, a process it forked outlives it, holding the
\* descriptors it inherited
ChildExit(c, st, leaves) ==
    /\ proc[c].child = "running"
    /\ proc' = [proc EXCEPT ![c].child = "exited", ![c].exit = st,
                            ![c].desc = IF leaves THEN "alive" ELSE "none"]
    /\ sinks' = LET sk == IF leaves
                          THEN try_clone(
                                   try_clone(sinks, <<c, "child.2">>,
                                             <<c, "desc.2">>),
                                   <<c, "child.1">>, <<c, "desc.1">>)
                          ELSE sinks
                IN  ReleaseAll(sk, {<<c, "child.2">>, <<c, "child.1">>})
    /\ UNCHANGED <<call, ghost, menu>>

\* the forked process writes through the inherited descriptor 2 while
\* the tail reader is between its size query and the end of its read
LateWrite(c, bs) ==
    /\ proc[c].desc = "alive"
    /\ proc[c].nlate < MaxLate
    /\ call[c].pc \in {"seek", "read"}
    /\ Has(sinks, <<c, "desc.2">>)
    /\ sinks' = WriteThrough(sinks, <<c, "desc.2">>, By(bs, c))
    /\ proc' = [proc EXCEPT ![c].nlate = @ + 1]
    /\ ghost' = [ghost EXCEPT ![c].late = TRUE]
    /\ UNCHANGED <<call, menu>>

\* the forked process terminates
DescExit(c) ==
    /\ proc[c].desc = "alive"
    /\ proc' = [proc EXCEPT ![c].desc = "gone"]
    /\ sinks' = ReleaseAll(sinks, {<<c, "desc.2">>, <<c, "desc.1">>})
    /\ UNCHANGED <<call, ghost, menu>>

----------------------------------------------------------------------------
(* Specifications *)

Next ==
    \/ \E c \in Calls, k \in Kinds : Start(c, k)
    \/ \E c \in Calls : JsonTempfile(c)
    \/ \E c \in Calls : JsonTryClone(c)
    \/ \E c \in Calls : RunTempfile(c)
    \/ \E c \in Calls : RunTryClone(c)
    \/ \E c \in Calls : Spawn(c)
    \/ \E c \in Calls : StatusBlocking(c)
    \/ \E c \in Calls : StatusAwait(c)
    \/ \E c \in Calls : Metadata(c)
    \/ \E c \in Calls : SeekEnd(c)
    \/ \E c \in Calls : ReadToEnd(c)
    \/ \E c \in Calls : CheckStatus(c)
    \/ \E c \in Calls : JsonSeek(c)
    \/ \E c \in Calls : JsonDecode(c)
    \/ \E c \in Calls : DropCommand(c)
    \/ \E c \in Calls, bs \in menu : ChildWrite(c, bs)
    \/ \E c \in Calls, doc \in Documents : ChildPrint(c, doc)
    \/ \E c \in Calls, st \in Statuses, leaves \in BOOLEAN :
            ChildExit(c, st, leaves)
    \/ \E c \in Calls, bs \in LateMenu : LateWrite(c, bs)
    \/ \E c \in Calls : DescExit(c)

\* one invocation of any runner
Spec == Init /\ [][Next]_vars

\* tokio::join!(success.run(), fail.run()) beside the blocking runs of
\* command_run_ext: two invocations, each of the non-blocking or of the
\* blocking runner, overlapping or one after the other, of commands that
\* fork nothing; the two Commands live until the end of the test
NextAsync ==
    \/ \E c \in Calls, k \in {"run", "async_run"} : Start(c, k)
    \/ \E c \in Calls : RunTempfile(c)
    \/ \E c \in Calls : RunTryClone(c)
    \/ \E c \in Calls : Spawn(c)
    \/ \E c \in Calls : StatusBlocking(c)
    \/ \E c \in Calls : StatusAwait(c)
    \/ \E c \in Calls : Metadata(c)
    \/ \E c \in Calls : SeekEnd(c)
    \/ \E c \in Calls : ReadToEnd(c)
    \/ \E c \in Calls : CheckStatus(c)
    \/ \E c \in Calls, bs \in menu : ChildWrite(c, bs)
    \/ \E c \in Calls, st \in Statuses : ChildExit(c, st, FALSE)

SpecAsync == InitAsync /\ [][NextAsync]_vars

----------------------------------------------------------------------------
(* Properties *)

IsSubprocessFailed(r) ==
    r.tag = "Err" /\ Len(r.msg) >= 1 /\ r.msg[1] = "Subprocess failed: "

TailOps == {"stderr.metadata", "stderr.seek", "stderr.read"}
OutOps == {"stdout.seek", "stdout.read"}
InfraFaults == {"stdout.tempfile", "stdout.try_clone", "stderr.tempfile",
                "stderr.try_clone", "spawn", "wait"}
ReadFaults == {"stderr.seek", "stderr.read"}

Did(c, ops) == \E i \in 1..Len(ghost[c].ops) : ghost[c].ops[i] \in ops
Faulted(c, fs) == ghost[c].faults \cap fs # {}
Returned(c) == call[c].pc \in {"returned", "dropped"}
\* run() has returned in invocation c, after its child ended with a
\* non-success status
RunFailed(c) ==
    /\ call[c].run_result # NoResult
    /\ call[c].status # -1
    /\ ~success(call[c].status)
\* the last min(size, 1024) bytes the command wrote to its error stream
\* before the size query
LastWritten(c) ==
    RLast(ghost[c].written, Min(RLen(ghost[c].written), MAX_STDERR_BYTES))
HasInvalid(bs) == \E i \in 1..Len(bs) : bs[i].b = "X"

\* C1, as stated: every run whose child ends with a non-success status
\* returns the failure "Subprocess failed: " + debug form + "\n" + the
\* lossy decoding of the last min(size, 1024) bytes the child wrote to its
\* error stream.
C1_Original ==
    \A c \in Calls :
        RunFailed(c) =>
            call[c].run_result =
                Err(<<"Subprocess failed: ", DebugForm(call[c].status), "\n",
                      from_utf8_lossy(LastWritten(c))>>)

\* C1, amended: every run whose child ends with a non-success status
\* returns the failure "Subprocess failed: " + debug form + "\n" + tail,
\* where tail is the placeholder if the seek or a read failed, and
\* otherwise the lossy decoding of the bytes read, at most 1024 of them:
\* the last min(size, 1024) bytes the child wrote when the size query
\* succeeded and nothing was written through the child's handle after
\* it, and none when the size query failed.
C1_FailureMessage ==
    \A c \in Calls :
        RunFailed(c) =>
            LET r == call[c].run_result
            IN  /\ r.tag = "Err"
                /\ Len(r.msg) = 4
                /\ r.msg[1] = "Subprocess failed: "
                /\ r.msg[2] = DebugForm(proc[c].exit)
                /\ r.msg[3] = "\n"
                /\ r.msg[4] = IF Faulted(c, ReadFaults) THEN Placeholder
                              ELSE from_utf8_lossy(call[c].stderr_buf)
                /\ RLen(call[c].stderr_buf) <= MAX_STDERR_BYTES
                /\ ~Faulted(c, ReadFaults) /\ ~ghost[c].late =>
                       call[c].stderr_buf =
                           IF Faulted(c, {"stderr.metadata"}) THEN <<>>
                           ELSE LastWritten(c)

\* a failed run over an error stream of more than 1024 bytes holding
\* invalid UTF-8, read without fault or late write
C1_Witness ==
    \E c \in Calls :
        /\ RunFailed(c)
        /\ ghost[c].faults = {}
        /\ ~ghost[c].late
        /\ RLen(ghost[c].written) > MAX_STDERR_BYTES
        /\ HasInvalid(call[c].stderr_buf)
        /\ IsSubprocessFailed(call[c].run_result)

\* C2: a run whose child ends with a success status returns success
\* whatever the error sink holds, and whether or not it can be sized,
\* seeked or read.
C2_SuccessRegardless ==
    \A c \in Calls :
        /\ call[c].pc \in {"j_seek", "j_decode", "returned", "dropped"}
        /\ call[c].status # -1
        /\ success(call[c].status)
        => /\ call[c].run_result = Ok
           /\ call[c].kind # "run_and_parse_json" => call[c].result = Ok

\* a successful run whose error sink held more than 1024 bytes with
\* invalid UTF-8 and could not be seeked
C2_Witness ==
    \E c \in Calls :
        /\ call[c].run_result = Ok
        /\ success(call[c].status)
        /\ RLen(ghost[c].written) > MAX_STDERR_BYTES
        /\ HasInvalid(ghost[c].written)
        /\ "stderr.seek" \in ghost[c].faults

\* C3, as stated: in every interleaving of the reader's steps with writes
\* through the other handle, the number of bytes read equals the clamp
\* length min(size, 1024).
C3_Original ==
    \A c \in Calls :
        call[c].pc = "check" /\ ~Faulted(c, ReadFaults) =>
            RLen(call[c].stderr_buf) = call[c].size

\* C3, amended: for every sink size and in every interleaving of the
\* reader's steps with writes through the other handle, the number of
\* bytes read never exceeds the clamp length min(size, 1024), where size
\* is the sink's size at the size query (0 if it failed); it equals the
\* clamp length when no write lands after the size query.
C3_TailBound ==
    \A c \in Calls :
        /\ call[c].size <= MAX_STDERR_BYTES
        /\ RLen(call[c].stderr_buf) <= call[c].size
        /\ call[c].pc \in {"read", "check"} /\ ~Faulted(c, {"stderr.metadata"}) =>
               call[c].size >= Min(RLen(ghost[c].written), MAX_STDERR_BYTES)
        /\ call[c].pc = "check" /\ ~Faulted(c, ReadFaults) /\ ~ghost[c].late =>
               RLen(call[c].stderr_buf) = call[c].size

\* the reader has finished on a sink of more than u16::MAX bytes, with a
\* write through the other handle in between, and read exactly 1024
C3_Witness ==
    \E c \in Calls :
        /\ call[c].pc = "check"
        /\ ghost[c].faults = {}
        /\ ghost[c].late
        /\ RLen(ghost[c].written) > U16_MAX
        /\ RLen(call[c].stderr_buf) = MAX_STDERR_BYTES

\* C4, as stated: when the exit status signals success, check_status
\* performs no size query, seek or read on the error sink.
C4_NoTailReadOnSuccess ==
    \A c \in Calls :
        call[c].status # -1 /\ success(call[c].status) => ~Did(c, TailOps)

\* C5: run_and_parse_json seeks and decodes the output sink only after
\* the delegated run has returned success; a failure of run is returned
\* unchanged, with no seek or decode; a decode failure after a successful
\* run is not a "Subprocess failed" error.
C5_DecodeAfterSuccess ==
    \A c \in Calls :
        call[c].kind = "run_and_parse_json" =>
            /\ Did(c, OutOps) => call[c].run_result = Ok
            /\ call[c].pc \in {"j_seek", "j_decode"} => call[c].run_result = Ok
            /\ Returned(c) /\ call[c].run_result.tag = "Err" =>
                   /\ call[c].result = call[c].run_result
                   /\ ~Did(c, OutOps)
            /\ Returned(c) /\ call[c].run_result = Ok /\ call[c].result.tag = "Err" =>
                   ~IsSubprocessFailed(call[c].result)

\* run_and_parse_json has returned a decode failure after a successful
\* run of a command that printed a document
C5_Witness ==
    \E c \in Calls :
        /\ call[c].kind = "run_and_parse_json"
        /\ Returned(c)
        /\ call[c].run_result = Ok
        /\ proc[c].wrote_out
        /\ call[c].result.tag = "Err"
        /\ call[c].result.msg[1] = "serde_json"
        /\ ghost[c].faults = {}

\* C6: a failure of sink creation, handle duplication, spawn or wait
\* makes the runner return at once, without retry, an error that is not
\* a "Subprocess failed" error, the tail reader not being invoked; after
\* a failure of sink creation or duplication no child is spawned.
C6_InfrastructureErrors ==
    \A c \in Calls :
        Faulted(c, InfraFaults) =>
            /\ Returned(c)
            /\ Cardinality(ghost[c].faults) = 1
            /\ call[c].result.tag = "Err"
            /\ ~IsSubprocessFailed(call[c].result)
            /\ call[c].result.msg[1] = "os error"
            /\ ~Did(c, TailOps)
            /\ ~Did(c, OutOps)
            /\ ghost[c].spawns <= 1
            /\ ~Faulted(c, {"spawn", "wait"}) =>
                   ghost[c].spawns = 0 /\ proc[c].child = "none"
            /\ Faulted(c, {"spawn"}) => proc[c].child = "none"

\* the wait has failed while the child was still running
C6_Witness ==
    \E c \in Calls :
        /\ "wait" \in ghost[c].faults
        /\ proc[c].child = "running"
        /\ proc[c].nwrites > 0
        /\ Returned(c)

\* the result of the blocking runner on the command of invocation c run
\* on its own: what its child wrote and how it ended decide it
SequentialResult(c) ==
    LET f == ghost[c].faults
        st == proc[c].exit
        w == ghost[c].written
    IN  IF f \cap InfraFaults # {}
        THEN Err(IoError(CASE "stderr.tempfile" \in f -> "tempfile"
                           [] "stderr.try_clone" \in f -> "try_clone"
                           [] "spawn" \in f -> "spawn"
                           [] "wait" \in f -> "wait"))
        ELSE IF success(st) THEN Ok
        ELSE Err(<<"Subprocess failed: ", DebugForm(st), "\n",
                   IF f \cap ReadFaults # {} THEN Placeholder
                   ELSE IF "stderr.metadata" \in f THEN <<>>
                   ELSE from_utf8_lossy(LastWritten(c))>>)

\* C7: two invocations of the non-blocking runner in flight at once each
\* complete, in every interleaving, with the result the blocking runner
\* gives for the command run on its own (every invocation, blocking or
\* not, overlapping another or not, returns SequentialResult); each uses
\* its own error sink, and no sink or failure message of one holds bytes
\* of the other's child.
C7_ConcurrentAsSequential ==
    /\ \A s \in SinkIds :
           /\ \A h1, h2 \in sinks[s].holders : h1[1] = h2[1]
           /\ \A h \in sinks[s].holders, i \in 1..Len(sinks[s].data) :
                  sinks[s].data[i].w = h[1]
    /\ \A c \in Calls :
           /\ \A i \in 1..Len(call[c].stderr_buf) : call[c].stderr_buf[i].w = c
           /\ call[c].status # -1 => call[c].status = proc[c].exit
           /\ Returned(c) => call[c].result = SequentialResult(c)

\* both invocations were in flight together; one returned success, the
\* other a failure quoting its own child's error output
C7_Witness ==
    \E c, d \in Calls :
        /\ c # d
        /\ call[c].kind = "async_run" /\ call[d].kind = "async_run"
        /\ ghost[d].overlap
        /\ Returned(c) /\ Returned(d)
        /\ call[c].result = Ok
        /\ ghost[c].written # <<>>
        /\ IsSubprocessFailed(call[d].result)
        /\ call[d].stderr_buf # <<>>
        /\ call[d].stderr_buf = LastWritten(d)

\* C8: the tail reader is total: each of its steps can always be taken
\* and it ends with a string; a failed size query makes the size 0, a
\* failed seek or read makes the string the placeholder, so that a
\* failing run still returns the "Subprocess failed" failure.
C8_TailReaderTotal ==
    \A c \in Calls :
        /\ call[c].pc = "fstat" => ENABLED Metadata(c)
        /\ call[c].pc = "seek" => ENABLED SeekEnd(c)
        /\ call[c].pc = "read" => ENABLED ReadToEnd(c)
        /\ call[c].pc \in {"seek", "read", "check"}
              /\ Faulted(c, {"stderr.metadata"}) => call[c].size = 0
        /\ call[c].pc = "check" =>
               call[c].text = IF Faulted(c, ReadFaults) THEN Placeholder
                              ELSE from_utf8_lossy(call[c].stderr_buf)
        /\ call[c].pc \in {"fstat", "seek", "read", "check"} =>
               call[c].run_result = NoResult
        /\ RunFailed(c) /\ Faulted(c, TailOps) =>
               /\ IsSubprocessFailed(call[c].run_result)
               /\ Faulted(c, ReadFaults) => call[c].run_result.msg[4] = Placeholder

\* a failing run has returned "Subprocess failed" with the placeholder
\* after a read of a non-empty sink failed part-way
C8_Witness ==
    \E c \in Calls :
        /\ RunFailed(c)
        /\ "stderr.read" \in ghost[c].faults
        /\ call[c].stderr_buf # <<>>
        /\ IsSubprocessFailed(call[c].run_result)
        /\ call[c].run_result.msg[4] = Placeholder

\* C9, as stated: once a runner call has returned, the calling process
\* holds no handle to a sink the call created.
C9_NoHandleAfterReturn ==
    \A c \in Calls :
        call[c].pc = "returned" =>
            \A r \in ParentRoles : ~Has(sinks, <<c, r>>)

\* C10: two commands that differ in program name, whose children end
\* with the same status after writing the same bytes and whose runs meet
\* the same faults, get identical results: the failure message depends on
\* the exit status and the error sink only.
Untagged(bs) == [i \in 1..Len(bs) |-> [b |-> bs[i].b, n |-> bs[i].n]]
C10_NoCommandText ==
    \A c, d \in Calls :
        /\ Returned(c) /\ Returned(d)
        /\ call[c].prog # call[d].prog
        /\ proc[c].exit = proc[d].exit
        /\ Untagged(ghost[c].written) = Untagged(ghost[d].written)
        /\ ghost[c].faults = ghost[d].faults
        => call[c].result = call[d].result

\* "true" and "false" have both failed with the same status and the same
\* non-empty error output
C10_Witness ==
    \E c, d \in Calls :
        /\ call[c].prog = "true" /\ call[d].prog = "false"
        /\ Returned(c) /\ Returned(d)
        /\ proc[c].exit = 256 /\ proc[d].exit = 256
        /\ ghost[c].written # <<>>
        /\ Untagged(ghost[c].written) = Untagged(ghost[d].written)
        /\ IsSubprocessFailed(call[c].result)
        /\ call[c].result = call[d].result

====
